---- MODULE Spec2Model ----
(***************************************************************************)
(* Model of extract_dates_from_csv.py: the group locator with its embedded *)
(* field-order check, the evaluated-element selection of process_chunk,    *)
(* standardize_date, the regex evaluator and consensus_date.               *)
(*                                                                         *)
(* A Python str is a sequence of one-character strings; '' is <<>>.        *)
(* A delimiter value (delim3, delim2) is a one-character string, or ""     *)
(* for Python's ''.                                                        *)
(***************************************************************************)
EXTENDS Integers, Sequences, FiniteSets, TLC

VARIABLES
    text,       \* row[text_col] of the row being processed
    is_str,     \* isinstance(text, str)
    pc,         \* "row" before the loop body ran on the row, "done" after
    loc3,       \* (group3, delim3, n3) of process_chunk
    loc2,       \* (group2, delim2, n2) of process_chunk
    final_eval, \* the "Evaluated string element" of the row
    two_group,  \* is_two_group of process_chunk
    results,    \* the four standardized evaluator results, in column order
    consensus,  \* the consensus_date column of the row
    quals,      \* history: the qualifying groups of the row, in scan order
    u_in,       \* argument of a direct call of one of the module's functions
    u_out,      \* what the direct calls returned
    c_in,       \* argument list of a direct call of consensus_date
    c_two,      \* its two_group argument
    c_out       \* its result

vars == <<text, is_str, pc, loc3, loc2, final_eval, two_group, results,
          consensus, quals, u_in, u_out, c_in, c_two, c_out>>

----------------------------------------------------------------------------
(* Characters, integers and formatting                                      *)

Digits == {"0", "1", "2", "3", "4", "5", "6", "7", "8", "9"}

DigitVal(c) ==
    CASE c = "0" -> 0 [] c = "1" -> 1 [] c = "2" -> 2 [] c = "3" -> 3
      [] c = "4" -> 4 [] c = "5" -> 5 [] c = "6" -> 6 [] c = "7" -> 7
      [] c = "8" -> 8 [] c = "9" -> 9

DigitChar(n) ==
    CASE n = 0 -> "0" [] n = 1 -> "1" [] n = 2 -> "2" [] n = 3 -> "3"
      [] n = 4 -> "4" [] n = 5 -> "5" [] n = 6 -> "6" [] n = 7 -> "7"
      [] n = 8 -> "8" [] n = 9 -> "9"

isdigit(c) == c \in Digits

\* str.isdigit(): non-empty and all characters are digits
str_isdigit(s) == Len(s) > 0 /\ \A i \in 1..Len(s) : isdigit(s[i])

\* int(s) of a string of decimal digits
RECURSIVE int(_)
int(s) ==
    IF Len(s) = 0 THEN 0
    ELSE 10 * int(SubSeq(s, 1, Len(s) - 1)) + DigitVal(s[Len(s)])

\* the decimal digits of a natural number
RECURSIVE Decimal(_)
Decimal(n) ==
    IF n < 10 THEN <<DigitChar(n)>>
    ELSE Decimal(n \div 10) \o <<DigitChar(n % 10)>>

\* format(n, "0<w>d"): zero-padded on the left to at least w characters
RECURSIVE ZeroPad(_, _)
ZeroPad(s, w) == IF Len(s) >= w THEN s ELSE ZeroPad(<<"0">> \o s, w)

Fmt(n, w) == ZeroPad(Decimal(n), w)

\* text[::-1]
Reversed(s) == [i \in 1..Len(s) |-> s[Len(s) + 1 - i]]

\* str.strip() over the blank character
RECURSIVE strip(_)
strip(s) ==
    IF Len(s) = 0 THEN s
    ELSE IF s[1] = " " THEN strip(Tail(s))
    ELSE IF s[Len(s)] = " " THEN strip(SubSeq(s, 1, Len(s) - 1))
    ELSE s

\* s.split(d) for a one-character separator d: empty pieces are kept
RECURSIVE SplitFrom(_, _, _)
SplitFrom(s, d, cur) ==
    IF Len(s) = 0 THEN <<cur>>
    ELSE IF s[1] = d THEN <<cur>> \o SplitFrom(Tail(s), d, <<>>)
    ELSE SplitFrom(Tail(s), d, Append(cur, s[1]))

split(s, d) == SplitFrom(s, d, <<>>)

\* [g for g in groups if g != '']
RECURSIVE NonEmpty(_)
NonEmpty(gs) ==
    IF Len(gs) = 0 THEN <<>>
    ELSE IF Head(gs) = <<>> THEN NonEmpty(Tail(gs))
    ELSE <<Head(gs)>> \o NonEmpty(Tail(gs))

Contains(s, c) == \E i \in 1..Len(s) : s[i] = c

----------------------------------------------------------------------------
(* The regular expressions of the module.  Every pattern is a list of      *)
(* digit fields \d{lo,hi} joined by a separator, the separator being one   *)
(* escaped delimiter (locator) or the class DELIMS (the other functions).  *)
(* A shape is the list of the <<lo, hi>> of the fields.                    *)

DELIM_LIST == <<"-", "_", "/", "\\", ".">>

DELIMS == {"-", "_", "/", "\\", "."}

\* the number of consecutive digits of s from position i on
RECURSIVE DigitRun(_, _)
DigitRun(s, i) ==
    IF i > Len(s) \/ ~isdigit(s[i]) THEN 0 ELSE 1 + DigitRun(s, i + 1)

Min(a, b) == IF a < b THEN a ELSE b

\* The groups of the match of fields k.. of the shape at position i, <<>> if
\* there is none.  A field that a separator follows must take the whole
\* digit run (backtracking to fewer digits leaves a digit where the separator
\* is required), the last field is greedy.
RECURSIVE MatchFields(_, _, _, _, _)
MatchFields(s, i, seps, shape, k) ==
    LET run == DigitRun(s, i)
        lo == shape[k][1]
        hi == shape[k][2]
    IN  IF k = Len(shape)
        THEN IF run >= lo THEN <<SubSeq(s, i, i + Min(run, hi) - 1)>> ELSE <<>>
        ELSE IF run >= lo /\ run <= hi /\ i + run <= Len(s) /\ s[i + run] \in seps
             THEN LET rest == MatchFields(s, i + run + 1, seps, shape, k + 1)
                  IN  IF rest = <<>> THEN <<>>
                      ELSE <<SubSeq(s, i, i + run - 1)>> \o rest
             ELSE <<>>

RECURSIVE TotalLen(_)
TotalLen(gs) == IF Len(gs) = 0 THEN 0 ELSE Len(Head(gs)) + TotalLen(Tail(gs))

\* re.finditer(pattern, s) from position i: the non-overlapping matches,
\* left to right, each with its first and last position and its groups
RECURSIVE finditer(_, _, _, _)
finditer(s, seps, shape, i) ==
    IF i > Len(s) THEN <<>>
    ELSE LET gs == MatchFields(s, i, seps, shape, 1)
             last == i + TotalLen(gs) + Len(gs) - 2
         IN  IF gs = <<>> THEN finditer(s, seps, shape, i + 1)
             ELSE <<[start |-> i, end |-> last, groups |-> gs]>>
                  \o finditer(s, seps, shape, last + 1)

\* re.fullmatch(pattern, s): the groups, <<>> if s does not match
fullmatch(s, seps, shape) ==
    LET gs == MatchFields(s, 1, seps, shape, 1)
    IN  IF gs # <<>> /\ TotalLen(gs) + Len(gs) - 1 = Len(s) THEN gs ELSE <<>>

\* re.search(r'\d{n}', s) finds something
search_digits(s, n) == \E i \in 1..Len(s) : DigitRun(s, i) >= n

----------------------------------------------------------------------------
(* plausible_year                                                           *)

YearMin == 1980
YearMax == 2039

\* a faulty variant: the upper edge is off by one, 2040 passes
plausible_year_wide(y) == YearMin <= y /\ y <= YearMax + 1

plausible_year(y) == YearMin <= y /\ y <= YearMax

\* a faulty variant: only the century 2000 is tried
expand_century_2000(yy) ==
    IF plausible_year(yy + 2000) THEN yy + 2000 ELSE yy

\* for century in [1900, 2000]: the first plausible yy + century, else yy
expand_century(yy) ==
    IF plausible_year(yy + 1900) THEN yy + 1900
    ELSE IF plausible_year(yy + 2000) THEN yy + 2000
    ELSE yy

----------------------------------------------------------------------------
(* extract_same_delim_group_from_reversed                                   *)

\* the four patterns tried for each delimiter, as applied to the REVERSED
\* text: the field count n_groups and the shape
LocatorPatterns ==
    << [n |-> 3, shape |-> << <<1, 2>>, <<1, 2>>, <<2, 4>> >>],
       [n |-> 3, shape |-> << <<2, 4>>, <<1, 2>>, <<1, 2>> >>],
       [n |-> 2, shape |-> << <<1, 2>>, <<2, 4>> >>],
       [n |-> 2, shape |-> << <<2, 4>>, <<1, 2>> >>] >>

\* "Try MM-DD-YY": the 3-field check with the year last
try_mdy(g) ==
    LET mm == int(g[1])
        dd == int(g[2])
        yy0 == int(g[3])
        ok0 == IF yy0 < 100
               THEN plausible_year(yy0 + 1900) \/ plausible_year(yy0 + 2000)
               ELSE TRUE
        yy == IF yy0 < 100 THEN expand_century(yy0) ELSE yy0
    IN  IF ~(1 <= mm /\ mm <= 12 /\ 1 <= dd /\ dd <= 31 /\ plausible_year(yy))
        THEN FALSE
        ELSE ok0

\* "Try YY-MM-DD if above fails": the 3-field check with the year first
try_ymd(g) ==
    LET yy0 == int(g[1])
        mm == int(g[2])
        dd == int(g[3])
        yy == IF yy0 < 100 THEN expand_century(yy0) ELSE yy0
    IN  1 <= mm /\ mm <= 12 /\ 1 <= dd /\ dd <= 31 /\ plausible_year(yy)

fields3_ok(g) == IF try_mdy(g) THEN TRUE ELSE try_ymd(g)

\* the month/year test shared by the two branches of the 2-field check
month_year_ok(mstr, ystr) ==
    LET mm == int(mstr)
        yy0 == int(ystr)
        yy == IF yy0 < 100 THEN expand_century(yy0) ELSE yy0
    IN  1 <= mm /\ mm <= 12 /\ plausible_year(yy)

\* the 2-field check: if / elif on the lengths of the two fields
fields2_ok(g) ==
    LET g1 == strip(g[1])
        g2 == strip(g[2])
        mm_first == 1 <= Len(g1) /\ Len(g1) <= 2 /\ str_isdigit(g1)
        yy_first == (Len(g1) = 2 \/ Len(g1) = 4) /\ str_isdigit(g1)
        mm_second == 1 <= Len(g2) /\ Len(g2) <= 2 /\ str_isdigit(g2)
        yy_second == (Len(g2) = 2 \/ Len(g2) = 4) /\ str_isdigit(g2)
    IN  IF mm_first /\ yy_second THEN month_year_ok(g1, g2)
        ELSE IF yy_first /\ mm_second THEN month_year_ok(g2, g1)
        ELSE FALSE

\* a faulty variant: only the character after the match is looked at
border_ok_after(rev, m) ==
    m.end = Len(rev) \/ ~isdigit(rev[m.end + 1])

\* the candidate is not bordered by a digit in the reversed text
border_ok(rev, m) ==
    /\ (m.start = 1 \/ ~isdigit(rev[m.start - 1]))
    /\ (m.end = Len(rev) \/ ~isdigit(rev[m.end + 1]))

\* "Check no foreign delimiters"
no_foreign_delim(orig, delim) ==
    ~\E i \in 1..Len(DELIM_LIST) :
        DELIM_LIST[i] # delim /\ Contains(orig, DELIM_LIST[i])

\* One match m of a pattern for a delimiter, seen as a candidate: the group
\* in the original orientation, where it lies in the original text, and
\* whether the body of the innermost loop returns it.
Candidate(rev, delim, pat, m) ==
    LET orig == Reversed(SubSeq(rev, m.start, m.end))
        split_groups == NonEmpty(split(orig, delim))
        accepted ==
            /\ border_ok(rev, m)
            /\ Len(split_groups) = pat.n
            /\ ~Contains(orig, " ")
            /\ IF pat.n = 3 THEN fields3_ok(split_groups)
                            ELSE fields2_ok(split_groups)
            /\ no_foreign_delim(orig, delim)
    IN  [group |-> orig, delim |-> delim, n |-> pat.n,
         first |-> Len(rev) + 1 - m.end, last |-> Len(rev) + 1 - m.start,
         accepted |-> accepted]

\* the candidates in the order the three nested loops visit them (a
\* delimiter that does not occur in the text has no match and is passed over)
RECURSIVE ScanFrom(_, _, _)
ScanFrom(rev, di, pi) ==
    IF di > Len(DELIM_LIST) THEN <<>>
    ELSE IF pi > Len(LocatorPatterns) \/ ~Contains(rev, DELIM_LIST[di])
    THEN ScanFrom(rev, di + 1, 1)
    ELSE LET delim == DELIM_LIST[di]
             pat == LocatorPatterns[pi]
             ms == finditer(rev, {delim}, pat.shape, 1)
         IN  [j \in 1..Len(ms) |-> Candidate(rev, delim, pat, ms[j])]
             \o ScanFrom(rev, di, pi + 1)

Scan(txt) == ScanFrom(Reversed(txt), 1, 1)

NoGroup == [group |-> <<>>, delim |-> "", n |-> 0]

RECURSIVE FirstAccepted(_)
FirstAccepted(cs) ==
    IF Len(cs) = 0 THEN NoGroup
    ELSE IF Head(cs).accepted
         THEN [group |-> Head(cs).group, delim |-> Head(cs).delim, n |-> Head(cs).n]
         ELSE FirstAccepted(Tail(cs))

\* the function: num_groups is a parameter the body never reads
extract_same_delim_group_from_reversed(txt, isstr, num_groups) ==
    IF ~isstr THEN NoGroup ELSE FirstAccepted(Scan(txt))

\* the candidates the loop body would return, were it to reach them
RECURSIVE Accepted(_)
Accepted(cs) ==
    IF Len(cs) = 0 THEN <<>>
    ELSE IF Head(cs).accepted THEN <<Head(cs)>> \o Accepted(Tail(cs))
    ELSE Accepted(Tail(cs))

Qualifying(txt, isstr) == IF ~isstr THEN <<>> ELSE Accepted(Scan(txt))

----------------------------------------------------------------------------
(* Dates                                                                    *)

NoDate == [y |-> 0, m |-> 0, d |-> 0]

IsLeap(y) == (y % 4 = 0 /\ y % 100 # 0) \/ y % 400 = 0

DaysInMonth(y, m) ==
    IF m = 2 THEN (IF IsLeap(y) THEN 29 ELSE 28)
    ELSE IF m \in {4, 6, 9, 11} THEN 30 ELSE 31

\* datetime(y, m, d) does not raise
datetime_ok(y, m, d) ==
    1 <= y /\ y <= 9999 /\ 1 <= m /\ m <= 12 /\ 1 <= d /\ d <= DaysInMonth(y, m)

\* date.isoformat() and strftime('%Y-%m-%d')
isoformat(dt) == Fmt(dt.y, 4) \o <<"-">> \o Fmt(dt.m, 2) \o <<"-">> \o Fmt(dt.d, 2)

\* f"{yy:04d}-{mm:02d}-{dd:02d}"
ymd_string(yy, mm, dd) == Fmt(yy, 4) \o <<"-">> \o Fmt(mm, 2) \o <<"-">> \o Fmt(dd, 2)

----------------------------------------------------------------------------
(* standardize_date                                                         *)

\* dateutil_parser.parse(date_str, fuzzy=True, default=datetime(2000, 1, 1)):
\* the date it returns, NoDate when it raises.  On a YYYY-MM-DD string with
\* a four-digit year >= 1000, month 1..12 and day 1..31 the parser reads
\* year, month and day in that order and raises when the calendar has no
\* such day; on any other string the outcome is the caller's choice fz.
dateutil_parse(s, fz) ==
    LET g == fullmatch(s, {"-"}, << <<4, 4>>, <<2, 2>>, <<2, 2>> >>)
    IN  IF g # <<>> /\ int(g[1]) >= 1000
           /\ int(g[2]) \in 1..12 /\ int(g[3]) \in 1..31
        THEN IF datetime_ok(int(g[1]), int(g[2]), int(g[3]))
             THEN [y |-> int(g[1]), m |-> int(g[2]), d |-> int(g[3])]
             ELSE NoDate
        ELSE fz

\* rules 2 and 3: month and year of a two-field string
std_month_year(mstr, ystr) ==
    LET mm == int(mstr)
        yy0 == int(ystr)
        yy == IF yy0 < 100 THEN expand_century(yy0) ELSE yy0
    IN  IF 1 <= mm /\ mm <= 12 /\ plausible_year(yy)
        THEN ymd_string(yy, mm, 1)
        ELSE <<>>

\* rule 4: three fields, month/day/year and then day/month/year
std_three(g) ==
    LET mm == int(g[1])
        dd == int(g[2])
        yy0 == int(g[3])
        yy == IF yy0 < 100 THEN expand_century(yy0) ELSE yy0
    IN  IF 1 <= mm /\ mm <= 12 /\ 1 <= dd /\ dd <= 31 /\ plausible_year(yy)
        THEN ymd_string(yy, mm, dd)
        ELSE IF 1 <= dd /\ dd <= 12 /\ 1 <= mm /\ mm <= 31 /\ plausible_year(yy)
        THEN ymd_string(yy, dd, mm)
        ELSE <<>>

\* rules 5 and 6: the fuzzy fallback
std_fallback(s, fz) ==
    IF ~search_digits(s, 4) /\ ~search_digits(s, 2) THEN <<>>
    ELSE LET dt == dateutil_parse(s, fz)
         IN  IF dt # NoDate /\ plausible_year(dt.y) THEN isoformat(dt) ELSE <<>>

standardize_date(date_str, fz) ==
    IF date_str = <<>> THEN <<>>
    ELSE
    LET s == strip(date_str)
        r1 == fullmatch(s, DELIMS, << <<4, 4>> >>)
        r2 == fullmatch(s, DELIMS, << <<1, 2>>, <<2, 4>> >>)
        r3 == fullmatch(s, DELIMS, << <<4, 4>>, <<1, 2>> >>)
        r4 == fullmatch(s, DELIMS, << <<1, 2>>, <<1, 2>>, <<2, 4>> >>)
    IN  IF r1 # <<>>
        THEN IF plausible_year(int(r1[1])) THEN ymd_string(int(r1[1]), 1, 1) ELSE <<>>
        ELSE IF r2 # <<>> THEN std_month_year(r2[1], r2[2])
        ELSE IF r3 # <<>> THEN std_month_year(r3[2], r3[1])
        ELSE IF r4 # <<>> THEN std_three(r4)
        ELSE std_fallback(s, fz)

----------------------------------------------------------------------------
(* The four evaluators                                                      *)

\* extract_date_datefinder: matches is list(datefinder.find_dates(text))
RECURSIVE first_standard(_, _)
first_standard(matches, fz) ==
    IF Len(matches) = 0 THEN <<>>
    ELSE LET iso == standardize_date(isoformat(Head(matches)), fz)
         IN  IF iso # <<>> THEN iso ELSE first_standard(Tail(matches), fz)

extract_date_datefinder(matches, fz) == first_standard(matches, fz)

\* extract_date_dateparser: dt is dateparser.parse(text), NoDate for None
extract_date_dateparser(dt, fz) ==
    IF dt # NoDate THEN standardize_date(isoformat(dt), fz) ELSE <<>>

\* extract_date_parsedatetime: parsed is cal.parse(text), a time_struct date
\* and the parse_status
extract_date_parsedatetime(parsed, fz) ==
    IF parsed.status > 0 /\ datetime_ok(parsed.dt.y, parsed.dt.m, parsed.dt.d)
    THEN standardize_date(isoformat(parsed.dt), fz)
    ELSE <<>>

\* the five patterns of extract_date_regex_datetime, over the class DELIMS
RegexPatterns ==
    << << <<4, 4>>, <<1, 2>>, <<1, 2>> >>,
       << <<1, 2>>, <<1, 2>>, <<2, 4>> >>,
       << <<1, 2>>, <<2, 4>> >>,
       << <<2, 4>>, <<1, 2>> >>,
       << <<4, 4>> >> >>

NoReturn == [ret |-> FALSE, val |-> <<>>]
Return(v) == [ret |-> TRUE, val |-> v]

\* datetime(year, month, day) and the return that follows the range test
regex_date(year, month, day, fz) ==
    IF 1 <= month /\ month <= 12 /\ 1 <= day /\ day <= 31 /\ plausible_year(year)
    THEN IF datetime_ok(year, month, day)
         THEN Return(standardize_date(isoformat([y |-> year, m |-> month, d |-> day]), fz))
         ELSE NoReturn
    ELSE NoReturn

regex_month_year(mstr, ystr) ==
    LET mm == int(mstr)
        yy0 == int(ystr)
        yy == IF yy0 < 100 THEN expand_century(yy0) ELSE yy0
    IN  IF 1 <= mm /\ mm <= 12 /\ plausible_year(yy)
        THEN Return(ymd_string(yy, mm, 1))
        ELSE NoReturn

\* the body of the loop over the matches: what it returns for the groups of
\* one match, NoReturn when the loop goes on to the next match
regex_try(groups, fz) ==
    IF Len(groups) = 3
    THEN IF Len(groups[1]) = 4
         THEN regex_date(int(groups[1]), int(groups[2]), int(groups[3]), fz)
         ELSE IF Len(groups[3]) = 4
         THEN regex_date(int(groups[3]), int(groups[1]), int(groups[2]), fz)
         ELSE IF Len(groups[3]) = 2
         THEN regex_date(expand_century(int(groups[3])), int(groups[1]), int(groups[2]), fz)
         ELSE NoReturn
    ELSE IF Len(groups) = 2
    THEN LET g1 == groups[1]
             g2 == groups[2]
             mm_first == 1 <= Len(g1) /\ Len(g1) <= 2 /\ str_isdigit(g1)
             yy_first == (Len(g1) = 2 \/ Len(g1) = 4) /\ str_isdigit(g1)
             mm_second == 1 <= Len(g2) /\ Len(g2) <= 2 /\ str_isdigit(g2)
             yy_second == (Len(g2) = 2 \/ Len(g2) = 4) /\ str_isdigit(g2)
         IN  IF mm_first /\ yy_second THEN regex_month_year(g1, g2)
             ELSE IF yy_first /\ mm_second THEN regex_month_year(g2, g1)
             ELSE NoReturn
    ELSE IF plausible_year(int(groups[1]))
         THEN Return(ymd_string(int(groups[1]), 1, 1))
         ELSE NoReturn

\* the matches of all patterns in the order the two nested loops visit them
RECURSIVE RegexMatches(_, _)
RegexMatches(txt, pi) ==
    IF pi > Len(RegexPatterns) THEN <<>>
    ELSE finditer(txt, DELIMS, RegexPatterns[pi], 1) \o RegexMatches(txt, pi + 1)

RECURSIVE first_return(_, _)
first_return(ms, fz) ==
    IF Len(ms) = 0 THEN <<>>
    ELSE LET r == regex_try(Head(ms).groups, fz)
         IN  IF r.ret THEN r.val ELSE first_return(Tail(ms), fz)

\* a faulty variant: a default date instead of '' when nothing is returned
extract_date_regex_default(txt, fz) ==
    LET r == first_return(RegexMatches(txt, 1), fz)
    IN  IF r = <<>> THEN ymd_string(2000, 1, 1) ELSE r

extract_date_regex_datetime(txt, fz) == first_return(RegexMatches(txt, 1), fz)

----------------------------------------------------------------------------
(* consensus_date                                                           *)

\* re.fullmatch(r'\d{4}-\d{2}-\d{2}', d)
is_iso(d) == fullmatch(d, {"-"}, << <<4, 4>>, <<2, 2>>, <<2, 2>> >>) # <<>>

\* iso_dates: the stripped well-formed entries, in order
RECURSIVE iso_filter(_)
iso_filter(dates) ==
    IF Len(dates) = 0 THEN <<>>
    ELSE LET d == strip(Head(dates))
         IN  IF Head(dates) # <<>> /\ is_iso(d)
             THEN <<d>> \o iso_filter(Tail(dates))
             ELSE iso_filter(Tail(dates))

Count(seq, v) == Cardinality({i \in 1..Len(seq) : seq[i] = v})

\* a faulty variant: among the most frequent entries the last one met wins
most_common_last(iso) ==
    LET best == CHOOSE i \in 1..Len(iso) :
                  /\ \A j \in 1..Len(iso) : Count(iso, iso[j]) <= Count(iso, iso[i])
                  /\ \A j \in (i + 1)..Len(iso) : Count(iso, iso[j]) < Count(iso, iso[i])
    IN  iso[best]

\* Counter(iso_dates).most_common(1)[0][0]: the first entry, in insertion
\* order, whose count no other entry exceeds
most_common(iso) ==
    LET best == CHOOSE i \in 1..Len(iso) :
                  /\ \A j \in 1..Len(iso) : Count(iso, iso[j]) <= Count(iso, iso[i])
                  /\ \A j \in 1..(i - 1) : Count(iso, iso[j]) < Count(iso, iso[i])
    IN  iso[best]

\* a faulty variant: the two-group flag is not looked at
consensus_date_keep_day(dates, two) ==
    LET iso == iso_filter(dates)
    IN  IF Len(iso) = 0 THEN <<>> ELSE most_common(iso)

consensus_date(dates, two) ==
    LET iso == iso_filter(dates)
    IN  IF Len(iso) = 0 THEN <<>>
        ELSE LET parts == split(most_common(iso), "-")
             IN  IF two /\ Len(parts) = 3
                 THEN parts[1] \o <<"-">> \o parts[2] \o <<"-", "0", "1">>
                 ELSE most_common(iso)

----------------------------------------------------------------------------
(* The rows process_chunk is run on                                         *)

\* the largest number of digit fields of a generated tail of a row
MaxFields == 3

FieldValues ==
    { <<"3">>, <<"0", "5">>, <<"2", "1">>, <<"2", "0", "2", "1">> }

Joiners == {"-", "_"}

RECURSIVE Tails(_)
Tails(n) ==
    IF n = 0 THEN {<<>>}
    ELSE IF n = 1 THEN FieldValues
    ELSE {b \o <<j>> \o f : b \in Tails(n - 1), j \in Joiners, f \in FieldValues}

\* what precedes the generated tail
Heads ==
    { <<>>, <<"2", "0", "2", "0", "-", "0", "1", "-", "0", "1", "_">>, <<"0", "5", "-", "2", "1", "x">> }

\* rows taken as they are
Samples ==
    { <<"n", "o", "_", "x", ".">>, <<"x">>, <<" ">>, <<"1", "2", "-", "0", "1", ".", "2", "0", "2", "1">>, <<"1", "2", "3", "4", "5", "-", "0", "5", "-", "2", "1">>, <<"0", "5", "-", "2", "1", "-", "1", "2", "3", "4", "5">>,
      <<"0", "5", "-", "2", "1", "-", "2", "0", "4", "0">>, <<"0", "5", "-", "2", "1", "-", "1", "9", "7", "9">>, <<"2", "0", "4", "0", "-", "0", "5", "-", "2", "1">>, <<"0", "5", "-", "2", "0", "4", "0">>, <<"1", "9", "7", "9", ".", "0", "5">>,
      <<"0", "5", "-", "3", "-", "7", "7">>, <<"0", "5", "-", "2", "1", "-", "7", "7">>, <<"7", "7", "-", "0", "5", "-", "2", "1">>, <<"0", "5", "-", "7", "7">>, <<"9", "9", "-", "1", "2", "-", "3", "1">>, <<"1", "2", "/", "3", "1", "/", "9", "9">>,
      <<"0", "5", " ", "2", "1", " ", "2", "0", "2", "1">>, <<"0", "5", "-", " ", "2", "1", "-", "2", "0", "2", "1">>, <<"2", "0", "2", "1", ".", "0", "2", ".", "3", "0">>, <<"0", "2", "-", "3", "0", "-", "2", "0", "2", "1">>,
      <<"A", "n", "a", "l", "y", "s", "i", "s", "_", "C", "o", "n", "t", "r", "a", "c", "t", "s", "-", "1", "1", "-", "0", "5", ".", "p", "d", "f">>, <<"R", "e", "p", "o", "r", "t", "_", "2", "0", "2", "1", "-", "0", "7", "-", "1", "5", "_", "f", "i", "n", "a", "l", ".", "x", "l", "s", "x">>,
      <<"2", "0", "2", "0", "-", "0", "1", "-", "0", "1", "_", "r", "e", "p", "o", "r", "t", "_", "0", "3", "-", "1", "5", "-", "2", "1", ".", "p", "d", "f">> }

Rows ==
    Samples \cup {h \o t : h \in Heads, t \in UNION {Tails(n) : n \in 0..MaxFields}}

----------------------------------------------------------------------------
(* What the three date libraries may answer.  Their code is not part of    *)
(* the module: each answer is any of a few dates or no date, except on ''  *)
(* where none of them finds a date.                                        *)

D1 == [y |-> 2021, m |-> 5, d |-> 17]
D2 == [y |-> 1999, m |-> 12, d |-> 31]
DOld == [y |-> 1977, m |-> 5, d |-> 17]

find_dates(txt) == IF txt = <<>> THEN {<<>>} ELSE {<<>>, <<DOld, D1>>}

dateparser_parse(txt) == IF txt = <<>> THEN {NoDate} ELSE {NoDate, D2}

cal_parse(txt) ==
    IF txt = <<>> THEN {[status |-> 0, dt |-> D2]}
    ELSE {[status |-> 0, dt |-> D2], [status |-> 1, dt |-> D1]}

FuzzyOutcomes == {NoDate, D1, DOld}

----------------------------------------------------------------------------
(* process_chunk: the body of the loop over the rows                        *)

NoCalls == [called |-> {}, std |-> <<>>, again |-> <<>>, rgx |-> <<>>, loc |-> NoGroup]

Unset == [called |-> FALSE, val |-> <<>>]

IdleUnit == u_in = <<>> /\ u_out = NoCalls

IdleCons == c_in = <<>> /\ c_two = FALSE /\ c_out = Unset

IdleRow ==
    /\ text = <<>> /\ is_str = TRUE
    /\ loc3 = NoGroup /\ loc2 = NoGroup /\ final_eval = <<>>
    /\ two_group = FALSE /\ results = <<>> /\ consensus = <<>>
    /\ quals = <<>>

\* process_chunk is about to work on a row
InitRow ==
    /\ \/ text \in Rows /\ is_str = TRUE
       \/ text = <<>> /\ is_str = FALSE
    /\ pc = "row"
    /\ loc3 = NoGroup /\ loc2 = NoGroup /\ final_eval = <<>>
    /\ two_group = FALSE /\ results = <<>> /\ consensus = <<>>
    /\ quals = <<>>
    /\ IdleUnit /\ IdleCons

\* len(group.split(delim)) if group and delim else 0
splitcount(l) == IF l.group # <<>> /\ l.delim # "" THEN Len(split(l.group, l.delim)) ELSE 0

\* f"{parts[0]}{delim2}01{delim2}{parts[1]}"
expand_two(l) ==
    LET parts == split(l.group, l.delim)
    IN  parts[1] \o <<l.delim, "0", "1", l.delim>> \o parts[2]

\* "Use only *real* 3groups; otherwise transform the 2-group"
select_eval(l3, l2) ==
    IF l3.group # <<>> /\ l3.delim # "" /\ splitcount(l3) = 3 THEN l3.group
    ELSE IF l2.group # <<>> /\ l2.delim # "" /\ splitcount(l2) = 2 THEN expand_two(l2)
    ELSE <<>>

is_two_group(l3, l2) ==
    /\ l2.group # <<>> /\ l2.delim # "" /\ splitcount(l2) = 2
    /\ ~(l3.group # <<>> /\ l3.delim # "" /\ splitcount(l3) = 3)

\* One row: both locator calls, the choice of the evaluated element, the
\* four evaluators, each result standardized again, and the consensus.
ProcessRow ==
    /\ pc = "row"
    /\ \E l3 \in {extract_same_delim_group_from_reversed(text, is_str, 3)},
          l2 \in {extract_same_delim_group_from_reversed(text, is_str, 2)} :
       \E ev \in {select_eval(l3, l2)} :
       \E r1 \in {standardize_date(extract_date_datefinder(matches, fz), fz) :
                    matches \in find_dates(ev), fz \in FuzzyOutcomes},
          r2 \in {standardize_date(extract_date_dateparser(dt, fz), fz) :
                    dt \in dateparser_parse(ev), fz \in FuzzyOutcomes},
          r3 \in {standardize_date(extract_date_parsedatetime(parsed, fz), fz) :
                    parsed \in cal_parse(ev), fz \in FuzzyOutcomes},
          r4 \in {standardize_date(extract_date_regex_datetime(ev, fz), fz) :
                    fz \in FuzzyOutcomes} :
          /\ loc3' = l3
          /\ loc2' = l2
          /\ final_eval' = ev
          /\ two_group' = is_two_group(l3, l2)
          /\ results' = <<r1, r2, r3, r4>>
          /\ consensus' = consensus_date(<<r1, r2, r3, r4>>, is_two_group(l3, l2))
    /\ quals' = Qualifying(text, is_str)
    /\ pc' = "done"
    /\ UNCHANGED <<text, is_str, u_in, u_out, c_in, c_two, c_out>>

----------------------------------------------------------------------------
(* Direct calls of standardize_date, extract_date_regex_datetime and the   *)
(* locator on one string                                                    *)

TwoDigits == {Fmt(y, 2) : y \in 0..99}

IsoYears == { <<"1", "9", "7", "9">>, <<"1", "9", "8", "0">>, <<"2", "0", "2", "1">>, <<"2", "0", "2", "4">>, <<"2", "0", "3", "9">>, <<"2", "0", "4", "0">> }
IsoMonths == { <<"0", "1">>, <<"0", "2">>, <<"0", "4">>, <<"1", "2">>, <<"1", "3">> }
IsoDays == { <<"0", "1">>, <<"2", "8">>, <<"2", "9">>, <<"3", "0">>, <<"3", "1">>, <<"3", "2">> }

CallStrings ==
    {m \o <<"-">> \o d \o <<"-">> \o y :
        m \in { <<"0", "5">>, <<"1", "3">> }, d \in { <<"1", "7">>, <<"3", "2">> }, y \in TwoDigits}
    \cup {m \o <<"-">> \o y : m \in { <<"0", "5">>, <<"1", "3">> }, y \in TwoDigits}
    \cup {y \o <<"-">> \o m \o <<"-">> \o d :
        y \in IsoYears, m \in IsoMonths, d \in IsoDays}
    \cup IsoYears
    \cup { <<>>, <<"x">>, <<" ", "2", "0", "2", "1", " ">>, <<"1", "2", "3", "4", "5">>, <<"2", "0", "2", "1", "-", "5">>, <<"2", "1", "-", "0", "5">>, <<"5", "/", "1", "7", "/", "2", "0", "2", "1">>,
           <<"1", "7", "-", "0", "5", "-", "2", "0", "2", "1">>, <<"0", "2", "-", "3", "1", "-", "2", "1">>, <<"1", "2", "-", "0", "1", ".", "2", "0", "2", "1">>, <<"0", "0", "2", "1", "-", "0", "5", "-", "1", "7">> }

InitCall ==
    /\ pc = "call"
    /\ u_in \in CallStrings
    /\ u_out = NoCalls
    /\ IdleRow /\ IdleCons

CallStandardize ==
    /\ pc = "call"
    /\ "std" \notin u_out.called
    /\ \E fz \in FuzzyOutcomes :
       \E r \in {standardize_date(u_in, fz)} :
          u_out' = [u_out EXCEPT !.called = @ \cup {"std"}, !.std = r,
                                 !.again = standardize_date(r, fz)]
    /\ UNCHANGED <<text, is_str, pc, loc3, loc2, final_eval, two_group, results,
                   consensus, quals, u_in, c_in, c_two, c_out>>

CallRegex ==
    /\ pc = "call"
    /\ "rgx" \notin u_out.called
    /\ \E fz \in FuzzyOutcomes :
          u_out' = [u_out EXCEPT !.called = @ \cup {"rgx"},
                                 !.rgx = extract_date_regex_datetime(u_in, fz)]
    /\ UNCHANGED <<text, is_str, pc, loc3, loc2, final_eval, two_group, results,
                   consensus, quals, u_in, c_in, c_two, c_out>>

CallLocator ==
    /\ pc = "call"
    /\ "loc" \notin u_out.called
    /\ \E num_groups \in {2, 3} :
          u_out' = [u_out EXCEPT !.called = @ \cup {"loc"},
                                 !.loc = extract_same_delim_group_from_reversed(u_in, TRUE, num_groups)]
    /\ UNCHANGED <<text, is_str, pc, loc3, loc2, final_eval, two_group, results,
                   consensus, quals, u_in, c_in, c_two, c_out>>

----------------------------------------------------------------------------
(* Direct calls of consensus_date on four results                           *)

ConsValues ==
    { <<>>, <<"2", "0", "2", "1", "-", "0", "5", "-", "1", "7">>, <<"1", "9", "9", "9", "-", "1", "2", "-", "3", "1">>, <<"2", "0", "2", "1", "-", "0", "5", "-", "0", "1">>, <<"2", "0", "2", "1", "-", "5", "-", "1", "7">> }

InitCons ==
    /\ pc = "cons"
    /\ c_in \in [1..4 -> ConsValues]
    /\ c_two \in BOOLEAN
    /\ c_out = Unset
    /\ IdleRow /\ IdleUnit

CallConsensus ==
    /\ pc = "cons"
    /\ ~c_out.called
    /\ c_out' = [called |-> TRUE, val |-> consensus_date(c_in, c_two)]
    /\ UNCHANGED <<text, is_str, pc, loc3, loc2, final_eval, two_group, results,
                   consensus, quals, u_in, u_out, c_in, c_two>>

----------------------------------------------------------------------------

Init == InitRow \/ InitCall \/ InitCons

Next == ProcessRow \/ CallStandardize \/ CallRegex \/ CallLocator \/ CallConsensus

Spec == Init /\ [][Next]_vars

----------------------------------------------------------------------------
(* Properties.  The vocabulary below is stated on its own terms, not by    *)
(* way of the operators that model the code.                                *)

InRange(y) == y \in 1980..2039

\* the year a field stands for: a value below 100 is taken in the century
\* that puts it in range, if any
YearOfField(f) ==
    LET v == int(f)
    IN  IF v >= 100 THEN v
        ELSE IF InRange(1900 + v) THEN 1900 + v
        ELSE IF InRange(2000 + v) THEN 2000 + v
        ELSE v

AllDigits(f) == Len(f) > 0 /\ \A i \in 1..Len(f) : f[i] \in Digits

HasDigit(s) == \E i \in 1..Len(s) : s[i] \in Digits

\* the fields of a string of digit fields joined by the character d
FieldsOf(g, d) ==
    LET cuts == {i \in 1..Len(g) : g[i] = d} \cup {0, Len(g) + 1}
        Nth(k) == CHOOSE c \in cuts : Cardinality({b \in cuts : b < c}) = k
    IN  [k \in 1..(Cardinality(cuts) - 1) |-> SubSeq(g, Nth(k - 1) + 1, Nth(k) - 1)]

\* YYYY-MM-DD, digits and hyphens in their places
WellFormed(s) ==
    /\ Len(s) = 10
    /\ s[5] = "-" /\ s[8] = "-"
    /\ \A i \in {1, 2, 3, 4, 6, 7, 9, 10} : s[i] \in Digits

YearPart(s) == int(SubSeq(s, 1, 4))
MonthPart(s) == int(SubSeq(s, 6, 7))
DayPart(s) == int(SubSeq(s, 9, 10))

\* a qualifying group no other qualifying group extends beyond on the right
Rightmost(c) ==
    \A j \in 1..Len(quals) :
        /\ quals[j].last <= c.last
        /\ quals[j].last = c.last => quals[j].first >= c.first

\* a 3-field month/day/year group with a 4-digit year in range
IsMonthDayYear4(c) ==
    /\ c.n = 3
    /\ LET f == FieldsOf(c.group, c.delim)
       IN  /\ Len(f[3]) = 4
           /\ int(f[1]) \in 1..12 /\ int(f[2]) \in 1..31 /\ InRange(int(f[3]))

\* the only qualifying group of the row: every qualifying candidate is it
OnlyGroup(c) ==
    \A j \in 1..Len(quals) : quals[j].first = c.first /\ quals[j].last = c.last

\* C1: when the rightmost qualifying group of a row is a month/day/year
\* group with a 4-digit year in range, the evaluated element is that group,
\* whatever qualifies further left.
C1_RightmostWins ==
    pc = "done" =>
        \A i \in 1..Len(quals) :
            IsMonthDayYear4(quals[i]) /\ Rightmost(quals[i])
                => final_eval = quals[i].group

\* C2: when a row has a qualifying 3-field group, the request for a 3-field
\* group returns a 3-field group and that raw group is the evaluated element,
\* never a 2-field expansion.
C2_ThreeFieldFirst ==
    pc = "done" =>
        ((\E i \in 1..Len(quals) : quals[i].n = 3)
            => loc3.n = 3 /\ final_eval = loc3.group /\ ~two_group)

WellDelimited(l, src) ==
    /\ l.n \in {2, 3}
    /\ l.delim \in {"-", "_", "/", "\\", "."}
    /\ \A i \in 1..Len(l.group) : l.group[i] \in Digits \cup {l.delim}
    /\ LET f == FieldsOf(l.group, l.delim)
       IN  Len(f) = l.n /\ \A k \in 1..Len(f) : AllDigits(f[k])
    /\ \E p \in 1..(Len(src) - Len(l.group) + 1) :
          LET q == p + Len(l.group) - 1
          IN  /\ SubSeq(src, p, q) = l.group
              /\ p = 1 \/ src[p - 1] \notin Digits
              /\ q = Len(src) \/ src[q + 1] \notin Digits

\* C4: a group the locator returns is a substring of the input made of 2 or
\* 3 non-empty digit fields joined by one delimiter, with no other character
\* in it, and no digit next to it in the input; for "12-01.2021" no returned
\* group has both '-' and '.'.
C4_GroupShape ==
    /\ pc = "done" =>
          /\ loc3.group # <<>> => WellDelimited(loc3, text)
          /\ loc2.group # <<>> => WellDelimited(loc2, text)
          /\ text = <<"1", "2", "-", "0", "1", ".", "2", "0", "2", "1">> =>
                ~(Contains(loc3.group, "-") /\ Contains(loc3.group, "."))
    /\ "loc" \in u_out.called /\ u_out.loc.group # <<>> => WellDelimited(u_out.loc, u_in)

\* a group is returned from a text in which a longer digit run was passed over
C4_Witness ==
    /\ pc = "done"
    /\ loc3.group # <<>>
    /\ Len(loc3.group) < Len(text)
    /\ \E i \in 1..(Len(text) - 4) : \A k \in 0..4 : text[i + k] \in Digits

\* the two readings of a 3-field group and of a 2-field group
MonthDayYear(f) ==
    int(f[1]) \in 1..12 /\ int(f[2]) \in 1..31 /\ InRange(YearOfField(f[3]))

YearMonthDay(f) ==
    InRange(YearOfField(f[1])) /\ int(f[2]) \in 1..12 /\ int(f[3]) \in 1..31

MonthYear(a, b) ==
    Len(a) \in 1..2 /\ Len(b) \in {2, 4} /\ int(a) \in 1..12 /\ InRange(YearOfField(b))

YearMonth(a, b) ==
    Len(a) \in {2, 4} /\ Len(b) \in 1..2 /\ InRange(YearOfField(a)) /\ int(b) \in 1..12

\* a returned group has a reading whose year is in range
YearAccepted(l) ==
    LET f == FieldsOf(l.group, l.delim)
    IN  IF l.n = 3 THEN MonthDayYear(f) \/ YearMonthDay(f)
        ELSE MonthYear(f[1], f[2]) \/ YearMonth(f[1], f[2])

\* a returned date string carries a year in range
DateInRange(s) == s # <<>> => WellFormed(s) /\ InRange(YearPart(s))

\* C5: no component accepts a year outside 1980..2039: plausible_year holds
\* exactly on 1980..2039, a group the locator returns has a reading with its
\* year in range, and every date string that standardize_date, the regex
\* evaluator or consensus_date returns has its year in range.
C5_YearRange ==
    /\ \A y \in {0, 99, 1979, 1980, 2000, 2039, 2040, 9999} :
          plausible_year(y) <=> (1980 <= y /\ y <= 2039)
    /\ loc3.group # <<>> => YearAccepted(loc3)
    /\ loc2.group # <<>> => YearAccepted(loc2)
    /\ u_out.loc.group # <<>> => YearAccepted(u_out.loc)
    /\ \A k \in 1..Len(results) : DateInRange(results[k])
    /\ DateInRange(consensus)
    /\ DateInRange(u_out.std) /\ DateInRange(u_out.again) /\ DateInRange(u_out.rgx)
    /\ DateInRange(c_out.val)

\* the year 2040 made the locator pass over a 3-field group, and a direct
\* call refused the bare year 1979
C5_Witness ==
    \/ /\ pc = "done" /\ text = <<"0", "5", "-", "2", "1", "-", "2", "0", "4", "0">> /\ loc3.group = <<"0", "5", "-", "2", "1">>
    \/ /\ pc = "call" /\ u_in = <<"1", "9", "7", "9">> /\ u_out.called = {"std", "rgx", "loc"}
       /\ u_out.std = <<>> /\ u_out.rgx = <<>>

\* the string is the date y-m-d
IsDate(s, y, m, d) ==
    WellFormed(s) /\ YearPart(s) = y /\ MonthPart(s) = m /\ DayPart(s) = d

\* C6: a 2-digit year field y stands for 1900+y if that is in 1980..2039,
\* else for 2000+y if that is; if neither is, the reading with that field as
\* the year gives no date: so for MM-DD-YY and MM-YY strings in the locator,
\* in standardize_date and in the regex evaluator.
C6_CenturyExpansion ==
    pc = "call" =>
        LET f == FieldsOf(u_in, "-")
        IN  (Len(f) \in {2, 3} /\ \A k \in 1..Len(f) : AllDigits(f[k]) /\ Len(f[k]) = 2) =>
            LET y == int(f[Len(f)])
                m == int(f[1])
                d == IF Len(f) = 3 THEN int(f[2]) ELSE 1
                century == IF InRange(1900 + y) THEN 1900
                           ELSE IF InRange(2000 + y) THEN 2000 ELSE 0
            IN  /\ "std" \in u_out.called =>
                      IF century = 0 THEN u_out.std = <<>>
                      ELSE m \in 1..12 /\ d \in 1..31 => IsDate(u_out.std, century + y, m, d)
                /\ "loc" \in u_out.called =>
                      IF century = 0 THEN u_out.loc.group # u_in
                      ELSE m \in 1..12 /\ d \in 1..31 =>
                              u_out.loc.group = u_in /\ u_out.loc.n = Len(f)
                /\ "rgx" \in u_out.called =>
                      IF century = 0
                      THEN u_out.rgx = <<>> \/ YearPart(u_out.rgx) \notin {y, 1900 + y, 2000 + y}
                      ELSE m \in 1..12 /\ d \in 1..28 => IsDate(u_out.rgx, century + y, m, d)

\* "99" was read as 1999 and "05" as 2005 by all three functions
C6_Witness ==
    /\ pc = "call"
    /\ u_out.called = {"std", "rgx", "loc"}
    /\ \/ u_in = <<"0", "5", "-", "1", "7", "-", "9", "9">> /\ IsDate(u_out.std, 1999, 5, 17) /\ IsDate(u_out.rgx, 1999, 5, 17)
       \/ u_in = <<"0", "5", "-", "1", "7", "-", "0", "5">> /\ IsDate(u_out.std, 2005, 5, 17) /\ IsDate(u_out.rgx, 2005, 5, 17)
    /\ u_out.loc.group = u_in

\* C7: a row without a digit, and a row that is not a string, gets no
\* group, an empty evaluated element and five empty date fields.
C7_NoDigitsAllEmpty ==
    pc = "done" /\ (~is_str \/ ~HasDigit(text)) =>
        /\ loc3 = NoGroup /\ loc2 = NoGroup
        /\ final_eval = <<>>
        /\ results = << <<>>, <<>>, <<>>, <<>> >>
        /\ consensus = <<>>

\* a row of letters and delimiters has been processed
C7_Witness ==
    /\ pc = "done" /\ is_str
    /\ ~HasDigit(text) /\ Contains(text, "_") /\ Contains(text, ".")
    /\ final_eval = <<>>

Canonical(s) ==
    /\ WellFormed(s)
    /\ InRange(YearPart(s)) /\ MonthPart(s) \in 1..12 /\ DayPart(s) \in 1..31

\* C8: standardize_date returns a canonical YYYY-MM-DD string (year in
\* 1980..2039, month 1..12, day 1..31) unchanged, and standardizing its own
\* result again changes nothing.
C8_Idempotent ==
    "std" \in u_out.called =>
        /\ Canonical(u_in) => u_out.std = u_in
        /\ u_out.again = u_out.std

\* C9: a 2-field candidate A<delim>B is accepted when either reading,
\* month=A/year=B or year=A/month=B, has its month in 1..12 and a plausible
\* year.
C9_EitherReading ==
    pc = "call" /\ "loc" \in u_out.called =>
        LET f == FieldsOf(u_in, "-")
        IN  (Len(f) = 2 /\ AllDigits(f[1]) /\ AllDigits(f[2])) =>
                (MonthYear(f[1], f[2]) \/ YearMonth(f[1], f[2])
                    => u_out.loc.group = u_in /\ u_out.loc.n = 2)

\* C10: consensus_date is empty iff no argument is well-formed; otherwise
\* it is the most frequent well-formed argument, the earliest one among
\* those equally frequent: returned as it is when two_group is unset, with
\* its day set to 01 when two_group is set.
C10_StableMode ==
    c_out.called =>
        LET W == {i \in 1..4 : WellFormed(c_in[i])}
            Freq(v) == Cardinality({j \in W : c_in[j] = v})
            FirstAt(v) == CHOOSE i \in W : c_in[i] = v /\ \A j \in W : c_in[j] = v => i <= j
            Wins(v) == \A j \in W :
                          c_in[j] # v =>
                             \/ Freq(c_in[j]) < Freq(v)
                             \/ Freq(c_in[j]) = Freq(v) /\ FirstAt(v) < FirstAt(c_in[j])
        IN  /\ c_out.val = <<>> <=> W = {}
            /\ W # {} /\ ~c_two =>
                  /\ \E i \in W : c_out.val = c_in[i]
                  /\ Wins(c_out.val)
            /\ W # {} /\ c_two =>
                  \E i \in W :
                      /\ Wins(c_in[i])
                      /\ c_out.val = SubSeq(c_in[i], 1, 8) \o <<"0", "1">>

\* two values with two votes each: the one met first was returned
C10_Witness ==
    /\ c_out.called /\ ~c_two
    /\ WellFormed(c_in[1]) /\ WellFormed(c_in[2]) /\ c_in[1] # c_in[2]
    /\ c_in[3] = c_in[2] /\ c_in[4] = c_in[1]
    /\ c_out.val = c_in[1]

\* the reading under which the locator accepts a 3-field group: month/day/year
\* if that reading is valid, else year/month/day
Reading3(f) ==
    IF MonthDayYear(f)
    THEN [yf |-> f[3], y |-> YearOfField(f[3]), m |-> int(f[1]), d |-> int(f[2])]
    ELSE [yf |-> f[1], y |-> YearOfField(f[1]), m |-> int(f[2]), d |-> int(f[3])]

\* C11: for a 3-field group the locator accepted with a 4-digit year, year
\* first or year last, extract_date_regex_datetime returns the YYYY-MM-DD
\* string of exactly that year, month and day: the day is only required to
\* be in 1..31, and no date of a 2-field part of the group is returned.
C11_RegexSameRules ==
    /\ pc = "done" /\ loc3.n = 3 /\ final_eval = loc3.group =>
          LET r == Reading3(FieldsOf(final_eval, loc3.delim))
          IN  Len(r.yf) = 4 /\ InRange(int(r.yf)) =>
                 \A fz \in FuzzyOutcomes :
                    IsDate(extract_date_regex_datetime(final_eval, fz), r.y, r.m, r.d)
    /\ pc = "call" /\ {"loc", "rgx"} \subseteq u_out.called
          /\ u_out.loc.n = 3 /\ u_out.loc.group = u_in =>
          LET r == Reading3(FieldsOf(u_in, u_out.loc.delim))
          IN  Len(r.yf) = 4 /\ InRange(int(r.yf)) => IsDate(u_out.rgx, r.y, r.m, r.d)

\* the reading under which the locator accepts a 2-field group: month/year
\* if that reading is valid, else year/month
Reading2(f) ==
    IF MonthYear(f[1], f[2])
    THEN [y |-> YearOfField(f[2]), m |-> int(f[1])]
    ELSE [y |-> YearOfField(f[1]), m |-> int(f[2])]

\* C12: when the evaluated element is the expansion A delim "01" delim B of
\* an accepted 2-field group, extract_date_regex_datetime gives for it the
\* first day of the group's month in the group's year, under whichever
\* reading, month/year or year/month, the locator accepted the group.
C12_ExpansionKeepsMonth ==
    pc = "done" /\ two_group =>
        LET r == Reading2(FieldsOf(loc2.group, loc2.delim))
        IN  \A fz \in FuzzyOutcomes :
               IsDate(extract_date_regex_datetime(final_eval, fz), r.y, r.m, 1)

====
